---- MODULE Spec2Model ----
(***************************************************************************)
(* Task orchestration of kiwi: the ConcurrencyLimiter (admission gate) and *)
(* the SessionManager (task lifecycle, event path, polling fallback,       *)
(* cancellation, timeout, shutdown cleanup).                               *)
(*                                                                         *)
(* JavaScript runs one callback at a time; an async function runs          *)
(* synchronously up to its next `await`.  Every action below is one such   *)
(* synchronous stretch: from a call or the return of an awaited promise up *)
(* to the next await that suspends on the external client, on the gate or  *)
(* on a timer.                                                             *)
(***************************************************************************)
EXTENDS Integers, Sequences, FiniteSets

\* ------------------------------------------------- configuration, helpers
\* config.maxConcurrent: a constructor argument; the model runs it small.
maxConcurrent == 1
\* acquire() calls the gate harness (SpecGate) makes.
MaxAcquires == 5

\* `undefined` of an optional field.
Undef == -1
\* `null` and the empty string: with `undefined`, the values a session id
\* can have that are falsy.
Null == -2
Empty == -3
FalsyIds == {Undef, Null, Empty}
Falsy(v) == v \in FalsyIds

Max(a, b) == IF a > b THEN a ELSE b
Min(a, b) == IF a < b THEN a ELSE b

\* ------------------------------------------------- ConcurrencyLimiter
VARIABLES
  gate,        \* ConcurrencyLimiter: [count, queue of Waiter [id, settled]]
  calls,       \* harness: acquire() calls made so far (the next waiter's id)
  wstate,      \* harness: per acquire() call, what became of its promise
  grantLog,    \* harness: waiters resolved by release(), in order
  sinceClear,  \* harness: acquire() calls since the last clear(), -1 once
               \*          a release() intervened or before any clear()
  floored      \* harness: whether some release() found no slot held

gateVars == <<gate, calls, wstate, grantLog, sinceClear, floored>>

VARIABLES
  tasks,       \* the registry: task id -> BackgroundTask, ids 1..taskCounter
  taskCounter, \* the module's id counter
  lpc,         \* per task, where its launch() is suspended
  cpc,         \* per task, an explicit cancelTask() awaiting session.abort
  timers,      \* per task, deferred callbacks scheduled by handleEvent
  evExt,       \* per task, event-path tryComplete()s awaiting extractResult
  poll,        \* the periodic pollRunningTasks() calls in flight
  pollTimer,   \* whether the interval timer is set
  now,         \* Date.now()
  releases,    \* history: per task, release() calls made on its behalf
  commits,     \* history: per task, tryComplete() commits by path
  lastSeen,    \* history: per task, the message count its last poll read
  unchanged,   \* history: per task, how many polls in a row have read the
               \*          count the poll before them read
  tickExpired, \* history: tasks running and past the timeout when the
               \*          tick in flight (or the last one) began
  env,         \* what the manager's surroundings do in this run (fixed)
  wait,        \* the launchAndWait() call in flight, if any
  promised,    \* history: per task, the launch queued longest when an
               \*          explicit cancelTask() found the task running, every
               \*          slot held by a running task and a launch queued
  refused,     \* history: what the last cancelTask() that returned false
               \*          found: "unknown" (the id) or the task's status
  aborting,    \* per session, the aborts issued by the shutdown cleanup
               \*          that have not come back yet
  fetched      \* what session.messages answers an extraction with in this
               \*          run (fixed)

VARIABLES
  runner       \* the ExploreRunner beside the manager: its subAgentSessions,
               \*          the sessions created for it so far, and where each
               \*          explore() call stands

\* What the manager leaves alone: the gate harness's variables and the
\* ExploreRunner.
harness == <<calls, wstate, grantLog, sinceClear, floored, runner>>

WaitNone == [pc |-> "none", t |-> 0, deadline |-> 0]

mgrVars == <<tasks, taskCounter, lpc, cpc, timers, evExt, poll, pollTimer, now,
             releases, commits, lastSeen, unchanged, tickExpired, env, wait, promised, refused,
             aborting, fetched>>

\* new ConcurrencyLimiter(maxConcurrent): count = 0, queue = []
LimiterInit == [count |-> 0, queue |-> <<>>]

\* acquire() called by waiter w: the gate after the call and whether the
\* returned promise is already resolved.
acquire(g, w) ==
  IF g.count < maxConcurrent
  THEN [gate |-> [g EXCEPT !.count = @ + 1], granted |-> TRUE]
  ELSE [gate |-> [g EXCEPT !.queue = Append(@, [id |-> w, settled |-> FALSE])],
        granted |-> FALSE]

\* release() without the floor: count - 1 also when no slot is held.
RECURSIVE release_nofloor(_)
release_nofloor(g) ==
  IF Len(g.queue) > 0
  THEN LET waiter == Head(g.queue)
           rest   == [g EXCEPT !.queue = Tail(@)]
       IN  IF waiter.settled
           THEN release_nofloor(rest)
           ELSE [gate |-> rest, resolved |-> {waiter.id}]
  ELSE [gate |-> [g EXCEPT !.count = @ - 1], resolved |-> {}]

\* release() that pops the newest waiter (queue.pop() for queue.shift()).
RECURSIVE release_lifo(_)
release_lifo(g) ==
  IF Len(g.queue) > 0
  THEN LET waiter == g.queue[Len(g.queue)]
           rest   == [g EXCEPT !.queue = SubSeq(@, 1, Len(@) - 1)]
       IN  IF waiter.settled
           THEN release_lifo(rest)
           ELSE [gate |-> rest, resolved |-> {waiter.id}]
  ELSE [gate |-> [g EXCEPT !.count = Max(0, @ - 1)], resolved |-> {}]

\* release() that never looks at the queue.
release_nowake(g) ==
  [gate |-> [g EXCEPT !.count = Max(0, @ - 1)], resolved |-> {}]

\* release() that gives the slot up as well as handing it over.
RECURSIVE release_decrement(_)
release_decrement(g) ==
  IF Len(g.queue) > 0
  THEN LET waiter == Head(g.queue)
           rest   == [g EXCEPT !.queue = Tail(@)]
       IN  IF waiter.settled
           THEN release_decrement(rest)
           ELSE [gate |-> [rest EXCEPT !.count = Max(0, @ - 1)],
                 resolved |-> {waiter.id}]
  ELSE [gate |-> [g EXCEPT !.count = Max(0, @ - 1)], resolved |-> {}]

\* release() that resolves every unsettled waiter instead of returning
\* after the first.
release_drain(g) ==
  IF Len(g.queue) > 0
  THEN [gate     |-> [g EXCEPT !.queue = <<>>],
        resolved |-> {g.queue[i].id : i \in {j \in 1..Len(g.queue) : ~g.queue[j].settled}}]
  ELSE [gate |-> [g EXCEPT !.count = Max(0, @ - 1)], resolved |-> {}]

\* release(): shift waiters off the queue until an unsettled one is found
\* and resolve it; with none left, count = max(0, count - 1).
RECURSIVE release(_)
release(g) ==
  IF Len(g.queue) > 0
  THEN LET waiter == Head(g.queue)
           rest   == [g EXCEPT !.queue = Tail(@)]
       IN  IF waiter.settled
           THEN release(rest)
           ELSE [gate |-> rest, resolved |-> {waiter.id}]
  ELSE [gate |-> [g EXCEPT !.count = Max(0, @ - 1)], resolved |-> {}]

\* clear() that rejects the waiters but neither marks them settled nor
\* empties the queue.
clear_keepqueue(g) ==
  [gate     |-> [count |-> 0, queue |-> g.queue],
   rejected |-> {g.queue[i].id : i \in {j \in 1..Len(g.queue) : ~g.queue[j].settled}}]

\* clear() that forgets to reset count.
clear_keepcount(g) ==
  [gate     |-> [count |-> g.count, queue |-> <<>>],
   rejected |-> {g.queue[i].id : i \in {j \in 1..Len(g.queue) : ~g.queue[j].settled}}]

\* clear(): reject every unsettled waiter, queue = [], count = 0.
clear(g) ==
  [gate     |-> [count |-> 0, queue |-> <<>>],
   rejected |-> {g.queue[i].id : i \in {j \in 1..Len(g.queue) : ~g.queue[j].settled}}]

GateInit ==
  /\ gate = LimiterInit
  /\ calls = 0
  /\ wstate = [w \in 1..MaxAcquires |-> "none"]
  /\ grantLog = <<>>
  /\ sinceClear = -1
  /\ floored = FALSE

GateAcquire ==
  /\ calls < MaxAcquires
  /\ LET w == calls + 1
         r == acquire(gate, w)
     IN  /\ gate' = r.gate
         /\ calls' = w
         /\ wstate' = [wstate EXCEPT ![w] = IF r.granted THEN "granted" ELSE "queued"]
         /\ sinceClear' = IF sinceClear >= 0 THEN sinceClear + 1 ELSE -1
  /\ UNCHANGED <<grantLog, floored, mgrVars, runner>>

GateRelease ==
  /\ LET r == release(gate)
     IN  /\ gate' = r.gate
         /\ wstate' = [w \in 1..MaxAcquires |->
                         IF w \in r.resolved THEN "resolved" ELSE wstate[w]]
         /\ grantLog' = IF r.resolved = {} THEN grantLog
                        ELSE Append(grantLog, CHOOSE w \in r.resolved : TRUE)
  /\ sinceClear' = -1
  /\ floored' = (floored \/ (gate.count = 0 /\ gate.queue = <<>>))
  /\ UNCHANGED <<calls, mgrVars, runner>>

GateClear ==
  /\ LET r == clear(gate)
     IN  /\ gate' = r.gate
         /\ wstate' = [w \in 1..MaxAcquires |->
                         IF w \in r.rejected THEN "rejected" ELSE wstate[w]]
  /\ sinceClear' = 0
  /\ UNCHANGED <<calls, grantLog, floored, mgrVars, runner>>


\* ------------------------------------------------------ SessionManager
\* launch() calls made on the manager.
NTasks == 2
\* idle notifications whose deferred callbacks are pending or in extraction,
\* per task.
MaxEvents == 2
\* The clock (Date.now()) runs from 0 to MaxTime.
MaxTime == 2
\* config.taskTimeoutMs, in clock units: a constructor argument.
taskTimeoutMs == 1
\* session.messages({limit: 1}) answers with 0..MaxMsgCount messages.
MaxMsgCount == 1
\* The release() calls counted per task (the history stops counting there).
MaxCount == 2
\* Stable-poll threshold: complete after N consecutive unchanged polls
STABLE_POLL_THRESHOLD == 3

\* pollRunningTasks() calls in flight at once: the interval timer fires
\* whatever the earlier calls are awaiting.
MaxTicks == 2
TickIds == 1..MaxTicks

undefined == "undefined"
TaskIds == 1..NTasks
Terminal == {"completed", "error", "cancelled"}

\* The surroundings of a run: how many launch() calls the caller makes, how
\* many idle notifications per task are in flight at once, how far the
\* clock runs, the message counts session.messages answers with, whether
\* session.status may name a running session busy, and whether the session
\* is restless: never named idle, a different message count at every poll.
\* falsy, same: the ids session.create answers a launch with, beside one
\* no other task has: these falsy ones, and the ids earlier tasks were
\* given.  ticks: how many pollRunningTasks() calls get to overlap.
\* Solo: one launch, everything else free.  Duo: NTasks launches contending
\* for the gate, sessions that are idle whenever asked, no notifications.
Solo == [launches |-> 1, events |-> MaxEvents, clock |-> MaxTime,
         msgs |-> MaxMsgCount, busy |-> TRUE, restless |-> FALSE,
         falsy |-> FalsyIds, same |-> TRUE, ticks |-> 1]
Duo  == [launches |-> NTasks, events |-> 0, clock |-> 0,
         msgs |-> 0, busy |-> FALSE, restless |-> FALSE,
         falsy |-> {Null}, same |-> TRUE, ticks |-> 1]
\* Pair: two launches, otherwise as Duo.
Pair == [Duo EXCEPT !.launches = 2]
\* Settling: as Duo, with sessions that all have an id of their own or
\* share one.
Settling == [Duo EXCEPT !.falsy = {}]
\* Twin: as Pair, with one idle notification at a time.
Twin == [Pair EXCEPT !.events = 1]
\* Once: one launch and one idle notification, nothing else.
Once == [launches |-> 1, events |-> 1, clock |-> 0,
         msgs |-> 0, busy |-> FALSE, restless |-> FALSE,
         falsy |-> {}, same |-> FALSE, ticks |-> 1]
\* Wait: one launchAndWait() call, no notifications, ticks that overlap,
\* everything else free.  Restless: the same with a session that never
\* settles.
Wait == [launches |-> 1, events |-> 0, clock |-> MaxTime,
         msgs |-> MaxMsgCount, busy |-> TRUE, restless |-> FALSE,
         falsy |-> FalsyIds, same |-> TRUE, ticks |-> MaxTicks]
Restless == [Wait EXCEPT !.restless = TRUE]

\* createTask() that does not advance the id counter.
createTask_fixedid(id) ==
  [id |-> 1, status |-> "pending", sessionID |-> Undef, startedAt |-> Undef,
   completedAt |-> Undef, result |-> undefined, error |-> undefined,
   lastMsgCount |-> Undef, stablePolls |-> Undef]

\* createTask(): the record a launch registers.
createTask(id) ==
  [id |-> id, status |-> "pending", sessionID |-> Undef, startedAt |-> Undef,
   completedAt |-> Undef, result |-> undefined, error |-> undefined,
   lastMsgCount |-> Undef, stablePolls |-> Undef]

\* One periodic poll: where pollRunningTasks()/pollTask() is suspended, the
\* tasks of its snapshot still to poll, the task being polled, which
\* branch of pollTask called tryComplete, and the sessions its statuses
\* name idle.
PollAt(pc, run, cur, via, idle) ==
  [pc |-> pc, run |-> run, cur |-> cur, via |-> via, idle |-> idle]
PollIdle == PollAt("idle", <<>>, 0, "", {})

Created(t) == t <= Len(tasks)

\* pollTask's timeout test: Date.now() - startedAt > taskTimeoutMs
Expired(task) ==
  /\ task.startedAt # Undef
  /\ now - task.startedAt > taskTimeoutMs

\* The launches whose queued acquire() a release() or clear() settled resume.
Woken(l, resolved, to) == [t \in TaskIds |-> IF t \in resolved THEN to ELSE l[t]]

Count(h, t) == [h EXCEPT ![t] = Min(MaxCount, @ + 1)]

\* ------------------------------------------------------ ExploreRunner
\* How many explore() calls a run makes, and the timeoutMs they are given.
MaxExplores == 2
exploreTimeoutMs == 1

ExploreIds == 1..MaxExplores

\* new ExploreRunner(client, directory): no sub-agent session, no call.
RunnerInit ==
  [subAgentSessions |-> {},
   created |-> 0,
   calls |-> [c \in ExploreIds |-> [pc |-> "none", sessionID |-> Undef, deadline |-> 0]]]

MgrInitWith(profiles, responses) ==
  /\ tasks = <<>>
  /\ taskCounter = 0
  /\ lpc = [t \in TaskIds |-> "none"]
  /\ cpc = [t \in TaskIds |-> "none"]
  /\ timers = [t \in TaskIds |-> 0]
  /\ evExt = [t \in TaskIds |-> 0]
  /\ poll = [k \in TickIds |-> PollIdle]
  /\ pollTimer = TRUE
  /\ now = 0
  /\ releases = [t \in TaskIds |-> 0]
  /\ commits = [t \in TaskIds |-> {}]
  /\ lastSeen = [t \in TaskIds |-> Undef]
  /\ unchanged = [t \in TaskIds |-> 0]
  /\ tickExpired = {}
  /\ env \in profiles
  /\ wait = WaitNone
  /\ promised = [t \in TaskIds |-> 0]
  /\ refused = "none"
  /\ aborting = [sessionID \in TaskIds |-> 0]
  /\ fetched \in responses
  /\ runner = RunnerInit

\* A run in which no extraction is answered from fetched.
NoResponse == [kind |-> "none", messages |-> <<>>]

MgrInitIn(profiles) == MgrInitWith(profiles, {NoResponse})

MgrInit == MgrInitIn({Solo, Duo})

\* release() called on behalf of task t, whatever else the step wrote to lpc.
ReleaseFor(t, l) ==
  LET r == release(gate)
  IN  /\ gate' = r.gate
      /\ lpc' = Woken(l, r.resolved, "create")
      /\ releases' = Count(releases, t)

\* launch(): createTask, then acquire(); suspended at `await acquire()`.
LaunchCall ==
  /\ taskCounter < env.launches
  /\ LET id == taskCounter + 1
         r  == acquire(gate, id)
     IN  /\ taskCounter' = id
         /\ tasks' = Append(tasks, createTask(id))
         /\ gate' = r.gate
         /\ lpc' = [lpc EXCEPT ![id] = IF r.granted THEN "create" ELSE "queued"]
  /\ UNCHANGED <<harness, aborting, fetched, cpc, timers, evExt, poll, pollTimer, now, releases, commits,
                 lastSeen, unchanged, tickExpired, env, promised, refused>>

\* launch(input) called by the manager's user.
Launch == LaunchCall /\ UNCHANGED wait

\* launchAndWait(), if that is what called the launch() of task t: launch()
\* returned the task with this status.  An error is returned as it is; a
\* pending or running task enters the loop, whose first test of the
\* deadline fails (timeoutMs >= 0), and sleeps; any other task is returned.
Launched(t, status) ==
  IF wait.pc = "launch" /\ wait.t = t
  THEN IF status \in {"running", "pending"}
       THEN [wait EXCEPT !.pc = "sleep",
                         !.deadline = now + (IF @ = Undef THEN taskTimeoutMs ELSE @)]
       ELSE [wait EXCEPT !.pc = "returned", !.deadline = 0]
  ELSE wait

\* launch() whose first catch releases like its second.
LaunchRejected_releasing(t) ==
  /\ lpc[t] = "rejected"
  /\ tasks' = [tasks EXCEPT ![t].status = "error",
                            ![t].error = "Failed to acquire concurrency slot"]
  /\ ReleaseFor(t, [lpc EXCEPT ![t] = "failed"])
  /\ wait' = Launched(t, "error")
  /\ UNCHANGED <<harness, aborting, fetched, taskCounter, cpc, timers, evExt, poll, pollTimer, now,
                 commits, lastSeen, unchanged, tickExpired, env, promised, refused>>

\* launch(): the acquire() was rejected by clear().
LaunchRejected(t) ==
  /\ lpc[t] = "rejected"
  /\ tasks' = [tasks EXCEPT ![t].status = "error",
                            ![t].error = "Failed to acquire concurrency slot"]
  /\ lpc' = [lpc EXCEPT ![t] = "failed"]
  /\ wait' = Launched(t, "error")
  /\ UNCHANGED <<harness, aborting, fetched, taskCounter, gate, cpc, timers, evExt, poll, pollTimer, now,
                 releases, commits, lastSeen, unchanged, tickExpired, env, promised,
                 refused>>

\* launch()'s catch around startSession: status error, the message,
\* release().
LaunchFailed(t, message) ==
  /\ tasks' = [tasks EXCEPT ![t].status = "error", ![t].error = message]
  /\ ReleaseFor(t, [lpc EXCEPT ![t] = "done"])
  /\ wait' = Launched(t, "error")

\* What session.create does: it throws, it answers with something that has
\* no id key, or it answers with an object whose id is this.
Thrown == [kind |-> "throw", id |-> Undef]
NoId == [kind |-> "noid", id |-> Undef]
WithId(id) == [kind |-> "id", id |-> id]

\* The session ids tasks other than t have been given so far.
GivenIds(t) ==
  {tasks[u].sessionID : u \in {v \in 1..Len(tasks) : v # t /\ ~Falsy(tasks[v].sessionID)}}

\* What session.create may answer the launch of task t with in this run.
CreateAnswers(t) ==
  {Thrown, NoId}
    \cup {WithId(id) : id \in {t} \cup env.falsy}
    \cup {WithId(id) : id \in IF env.same THEN GivenIds(t) ELSE {}}

\* startSession(): session.create returned.  An answer with an id key makes
\* the task running, whatever the id is.
CreateReturn(t, answer) ==
  /\ lpc[t] = "create"
  /\ CASE answer.kind = "id" ->
            /\ tasks' = [tasks EXCEPT ![t].sessionID = answer.id,
                                      ![t].status = "running",
                                      ![t].startedAt = now]
            /\ lpc' = [lpc EXCEPT ![t] = "prompt"]
            /\ UNCHANGED <<gate, releases, wait>>
       [] answer.kind = "noid" -> LaunchFailed(t, "Failed to create sub-agent session")
       [] answer.kind = "throw" -> LaunchFailed(t, "create failed")
  /\ UNCHANGED <<harness, aborting, fetched, taskCounter, cpc, timers, evExt, poll, pollTimer, now, commits,
                 lastSeen, unchanged, tickExpired, env, promised, refused>>

\* startSession(): session.promptAsync returned.
PromptReturn(t, outcome) ==
  /\ lpc[t] = "prompt"
  /\ CASE outcome = "ok" ->
            /\ lpc' = [lpc EXCEPT ![t] = "done"]
            /\ wait' = Launched(t, tasks[t].status)
            /\ UNCHANGED <<tasks, gate, releases>>
       [] outcome = "throw" -> LaunchFailed(t, "prompt failed")
  /\ UNCHANGED <<harness, aborting, fetched, taskCounter, cpc, timers, evExt, poll, pollTimer, now, commits,
                 lastSeen, unchanged, tickExpired, env, promised, refused>>

\* cancelTask() looks at the status: pending and running tasks only.
CanCancel(t) == Created(t) /\ tasks[t].status \notin Terminal

Cancelled(t) == [tasks EXCEPT ![t].status = "cancelled", ![t].completedAt = now]

\* cancelTask(id) that refuses unknown ids only.
cancelTask_anystatus(id) ==
  IF ~Created(id)
  THEN [returns |-> FALSE, tasks |-> tasks, aborts |-> FALSE, releases |-> FALSE]
  ELSE [returns  |-> TRUE,
        tasks    |-> Cancelled(id),
        aborts   |-> ~Falsy(tasks[id].sessionID),
        releases |-> Falsy(tasks[id].sessionID)]

\* cancelTask(id), the stretch up to `await session.abort` or, for a task
\* with no session, to the end: what it returns (in the end), the registry
\* it leaves, whether it is now awaiting session.abort and whether it has
\* called release().
cancelTask(id) ==
  IF ~Created(id) \/ tasks[id].status \in Terminal
  THEN [returns |-> FALSE, tasks |-> tasks, aborts |-> FALSE, releases |-> FALSE]
  ELSE [returns  |-> TRUE,
        tasks    |-> Cancelled(id),
        aborts   |-> ~Falsy(tasks[id].sessionID),
        releases |-> Falsy(tasks[id].sessionID)]

\* The launch queued longest, if task t is running, every slot is held by
\* a running task and a launch is queued; 0 otherwise.
LongestQueued(t) ==
  IF /\ tasks[t].status = "running"
     /\ gate.count = maxConcurrent
     /\ Cardinality({u \in 1..Len(tasks) : tasks[u].status = "running"}) = maxConcurrent
     /\ gate.queue # <<>>
  THEN Head(gate.queue).id
  ELSE 0

\* cancelTask(id) called by the manager's user.
CancelCall(t) ==
  LET r == cancelTask(t)
  IN  /\ tasks' = r.tasks
      /\ refused' = IF r.returns THEN refused
                    ELSE IF Created(t) THEN tasks[t].status ELSE "unknown"
      /\ promised' = IF r.aborts THEN [promised EXCEPT ![t] = LongestQueued(t)]
                     ELSE promised
      /\ IF r.aborts
         THEN /\ cpc' = [cpc EXCEPT ![t] = "abort"]
              /\ UNCHANGED <<gate, lpc, releases>>
         ELSE IF r.releases
         THEN /\ ReleaseFor(t, lpc)
              /\ UNCHANGED cpc
         ELSE UNCHANGED <<gate, lpc, releases, cpc>>
      /\ UNCHANGED <<harness, aborting, fetched, taskCounter, timers, evExt, poll, pollTimer, now,
                     commits, lastSeen, unchanged, tickExpired, env, wait>>

\* cancelTask(id) on a pending or running task.
CancelTask(t) == CanCancel(t) /\ CancelCall(t)

\* cancelTask(id) on a task that is completed, error or cancelled, or on an
\* id the registry does not know.
CancelRefused(t) == ~CanCancel(t) /\ CancelCall(t)

\* cancelTask(): session.abort returned or threw; release().
CancelAbortReturn(t) ==
  /\ cpc[t] = "abort"
  /\ cpc' = [cpc EXCEPT ![t] = "none"]
  /\ promised' = [promised EXCEPT ![t] = 0]
  /\ ReleaseFor(t, lpc)
  /\ UNCHANGED <<harness, aborting, fetched, tasks, taskCounter, timers, evExt, poll, pollTimer, now,
                 commits, lastSeen, unchanged, tickExpired, env, wait, refused>>

\* handleEvent({type: "session.idle", sessionID}) that schedules
\* tryComplete for task t: the first task with that session, and running.
HandleEvent(t) ==
  /\ Created(t)
  /\ ~Falsy(tasks[t].sessionID)
  /\ \A u \in 1..(t - 1) : tasks[u].sessionID # tasks[t].sessionID
  /\ tasks[t].status = "running"
  /\ timers[t] + evExt[t] < env.events
  /\ timers' = [timers EXCEPT ![t] = @ + 1]
  /\ UNCHANGED <<harness, aborting, fetched, tasks, taskCounter, gate, lpc, cpc, evExt, poll, pollTimer,
                 now, releases, commits, lastSeen, unchanged, tickExpired, env, wait, promised, refused>>

\* getTask(id): the positions of the registry that hold a record with
\* that id (none: undefined).
getTask(id) == {t \in 1..Len(tasks) : tasks[t].id = id}

\* The events the plugin hook may hand to handleEvent(): the idle
\* notification or another type, naming no session, a session of no task
\* (0) or a task's session.
Events == [type : {"session.idle", "session.error"},
           sessionID : FalsyIds \cup 0..NTasks]

\* findBySessionID(): the first task whose sessionID is that value, 0 for
\* the undefined it returns when there is none.
findBySessionID(sessionID) ==
  LET found == {t \in 1..Len(tasks) : tasks[t].sessionID = sessionID}
  IN  IF found = {} THEN 0 ELSE CHOOSE t \in found : \A u \in found : t <= u

\* handleEvent() without the status test.
handleEvent_anystatus(event) ==
  IF event.type # "session.idle" THEN timers
  ELSE IF Falsy(event.sessionID) THEN timers
  ELSE LET task == findBySessionID(event.sessionID)
       IN  IF task = 0 THEN timers
           ELSE [timers EXCEPT ![task] = @ + 1]

\* handleEvent(event): the deferred callbacks it leaves scheduled.
handleEvent(event) ==
  IF event.type # "session.idle" THEN timers
  ELSE IF Falsy(event.sessionID) THEN timers
  ELSE LET task == findBySessionID(event.sessionID)
       IN  IF task = 0 \/ tasks[task].status # "running" THEN timers
           ELSE [timers EXCEPT ![task] = @ + 1]

\* The plugin hook calls handleEvent(event).
HandleEventCall(event) ==
  /\ timers' = handleEvent(event)
  /\ \A t \in TaskIds : timers'[t] + evExt[t] <= env.events
  /\ UNCHANGED <<harness, aborting, fetched, tasks, taskCounter, gate, lpc, cpc, evExt, poll, pollTimer,
                 now, releases, commits, lastSeen, unchanged, tickExpired, env, wait, promised, refused>>

\* tryComplete(): the guards before `await extractResult`.
CanResolve(task) == task.status = "running" /\ ~Falsy(task.sessionID)

\* ------------------------------------------------------ extractResult
\* config.summaryMaxChars, and how long the answers of session.messages get.
summaryMaxChars == 2
MaxMessages == 2
MaxParts == 1

\* The sequences over S of length up to n.
SeqsUpTo(S, n) == UNION {[1..k -> S] : k \in 0..n}

\* A part of a message: its type, whether it has a text property, the text.
Texts == {"", "abc"}
Parts ==
  {[type |-> "tool", hasText |-> FALSE, text |-> ""],
   [type |-> "text", hasText |-> FALSE, text |-> ""]}
    \cup {[type |-> "text", hasText |-> TRUE, text |-> x] : x \in Texts}

\* msg.parts: an array of parts or something else.
PartLists ==
  {[array |-> FALSE, items |-> <<>>]}
    \cup {[array |-> TRUE, items |-> ps] : ps \in SeqsUpTo(Parts, MaxParts)}

\* A message: msg.info.role and msg.parts.
Messages == [role : {"assistant", "user"}, parts : PartLists]

\* What session.messages answers: it throws, res.data ?? res is no array,
\* or it is a list of messages.
Responses ==
  {[kind |-> "throw", messages |-> <<>>], [kind |-> "other", messages |-> <<>>]}
    \cup {[kind |-> "list", messages |-> ms] : ms \in SeqsUpTo(Messages, MaxMessages)}

\* The inner loop of extractResult: the text of every part of type "text"
\* that has a text property, in order.
TextsOf(items) ==
  LET textual == SelectSeq(items, LAMBDA part : part.type = "text" /\ part.hasText)
  IN  [k \in 1..Len(textual) |-> textual[k].text]

\* The outer loop of extractResult from index i down: skip messages that
\* are not the assistant's or whose parts is no array, take the text parts
\* of the first that is left and stop.
RECURSIVE LatestTexts(_, _)
LatestTexts(messages, i) ==
  IF i = 0 THEN <<>>
  ELSE IF messages[i].role # "assistant" THEN LatestTexts(messages, i - 1)
  ELSE IF ~messages[i].parts.array THEN LatestTexts(messages, i - 1)
  ELSE TextsOf(messages[i].parts.items)

\* textParts.join("\n\n")
RECURSIVE Join(_)
Join(textParts) ==
  IF Len(textParts) = 1 THEN textParts[1]
  ELSE textParts[1] \o "\n\n" \o Join(Tail(textParts))

\* extractResult() on an answer of session.messages that did not throw.
extractResult(res) ==
  IF res.kind # "list" THEN "(no output)"
  ELSE LET textParts == LatestTexts(res.messages, Len(res.messages))
       IN  IF Len(textParts) = 0 THEN "(no output)"
           ELSE LET result == Join(textParts)
                IN  IF Len(result) > summaryMaxChars
                    THEN SubSeq(result, 1, summaryMaxChars) \o "\n\n[... truncated]"
                    ELSE result

\* What tryComplete()'s await of extractResult comes back with.
Extraction(res) == IF res.kind = "throw" THEN "throw" ELSE extractResult(res)

\* tryComplete() that takes a failed extraction for an empty result.
Resolved_lenient(t, outcome) ==
  IF outcome = "throw"
  THEN [tasks EXCEPT ![t].status = "completed", ![t].completedAt = now,
                     ![t].result = "(no output)"]
  ELSE [tasks EXCEPT ![t].status = "completed", ![t].completedAt = now,
                     ![t].result = outcome]

\* tryComplete(): what it writes once extractResult has returned or thrown.
Resolved(t, outcome) ==
  IF outcome = "throw"
  THEN [tasks EXCEPT ![t].status = "error", ![t].completedAt = now,
                     ![t].error = "extract failed"]
  ELSE [tasks EXCEPT ![t].status = "completed", ![t].completedAt = now,
                     ![t].result = outcome]

ExtractOutcomes == {"text", "throw"}

\* The deferred callback of handleEvent fires: tryComplete(task) starts.
TimerFire(t) ==
  /\ timers[t] > 0
  /\ timers' = [timers EXCEPT ![t] = @ - 1]
  /\ evExt' = IF CanResolve(tasks[t]) THEN [evExt EXCEPT ![t] = @ + 1] ELSE evExt
  /\ UNCHANGED <<harness, aborting, fetched, tasks, taskCounter, gate, lpc, cpc, poll, pollTimer, now,
                 releases, commits, lastSeen, unchanged, tickExpired, env, wait, promised, refused>>

\* Event path: extractResult returned; tryComplete commits and releases.
EventExtractReturn(t, outcome) ==
  /\ evExt[t] > 0
  /\ evExt' = [evExt EXCEPT ![t] = @ - 1]
  /\ tasks' = Resolved(t, outcome)
  /\ commits' = [commits EXCEPT ![t] = @ \cup {"event"}]
  /\ ReleaseFor(t, lpc)
  /\ UNCHANGED <<harness, aborting, fetched, taskCounter, cpc, timers, poll, pollTimer, now, lastSeen, unchanged, tickExpired, env, wait, promised, refused>>

\* The tasks pollRunningTasks() finds running, in the registry's order.
RunningTasks == SelectSeq([i \in 1..Len(tasks) |-> i],
                          LAMBDA t : tasks[t].status = "running")

\* Tick k goes on within its snapshot, or ends.
PollStep(k, pc, run, cur, via) ==
  [poll EXCEPT ![k] = PollAt(pc, run, cur, via, poll[k].idle)]
PollEnd(k) == [poll EXCEPT ![k] = PollIdle]

\* The interval timer fires: pollRunningTasks() snapshots the running tasks
\* and awaits session.status, whatever earlier ticks are still awaiting.
PollTick ==
  /\ pollTimer
  /\ \E k \in TickIds : poll[k].pc = "idle"
  /\ RunningTasks # <<>>
  /\ LET k == CHOOSE j \in TickIds :
                 poll[j].pc = "idle" /\ \A i \in 1..(j - 1) : poll[i].pc # "idle"
     IN  poll' = [poll EXCEPT ![k] = PollAt("status", RunningTasks, 0, "", {})]
  /\ tickExpired' = {t \in 1..Len(tasks) :
                       tasks[t].status = "running" /\ Expired(tasks[t])}
  /\ UNCHANGED <<harness, aborting, fetched, tasks, taskCounter, gate, lpc, cpc, timers, evExt, pollTimer,
                 now, releases, commits, lastSeen, unchanged, env, wait, promised, refused>>

\* The pollRunningTasks() calls in flight.
Overlap == Cardinality({k \in TickIds : poll[k].pc # "idle"})

\* What session.status answers tick k with: it throws, or it names these
\* sessions idle (of the sessions of the tick's snapshot).
Statuses(ok, idle) == [ok |-> ok, idle |-> idle]

StatusAnswers(k) ==
  LET run == poll[k].run
      sessions == {tasks[run[i]].sessionID : i \in 1..Len(run)} \ FalsyIds
  IN  {Statuses(FALSE, {})}
        \cup {Statuses(TRUE, idle) :
                idle \in IF env.restless THEN {{}}
                         ELSE IF env.busy THEN SUBSET sessions
                         ELSE {sessions}}

\* pollRunningTasks() that fails the first task of its snapshot when
\* session.status throws.
StatusReturn_fatal(k, statuses) ==
  /\ poll[k].pc = "status"
  /\ poll' = IF ~statuses.ok THEN PollEnd(k)
             ELSE [poll EXCEPT ![k].pc = "next", ![k].idle = statuses.idle]
  /\ tasks' = IF ~statuses.ok
              THEN [tasks EXCEPT ![Head(poll[k].run)].status = "error"]
              ELSE tasks
  /\ UNCHANGED <<harness, aborting, fetched, taskCounter, gate, lpc, cpc, timers, evExt, pollTimer,
                 now, releases, commits, lastSeen, unchanged, tickExpired, env, wait, promised, refused>>

\* pollRunningTasks(): session.status returned (the loop starts with the
\* statuses it answered) or threw (the tick ends).
StatusReturn(k, statuses) ==
  /\ poll[k].pc = "status"
  /\ poll' = IF ~statuses.ok THEN PollEnd(k)
             ELSE [poll EXCEPT ![k].pc = "next", ![k].idle = statuses.idle]
  /\ UNCHANGED <<harness, aborting, fetched, tasks, taskCounter, gate, lpc, cpc, timers, evExt, pollTimer,
                 now, releases, commits, lastSeen, unchanged, tickExpired, env, wait, promised, refused>>

\* pollTask() that looks at the session's status before the timeout.
PollNext_idlefirst(k) ==
  /\ poll[k].pc = "next"
  /\ IF poll[k].run = <<>>
     THEN /\ poll' = PollEnd(k)
          /\ UNCHANGED tasks
     ELSE LET t == Head(poll[k].run)
              rest == Tail(poll[k].run)
              task == tasks[t]
          IN  IF Falsy(task.sessionID) \/ task.status # "running"
              THEN /\ poll' = PollStep(k, "next", rest, 0, "")
                   /\ UNCHANGED tasks
              ELSE IF task.sessionID \in poll[k].idle
              THEN /\ poll' = PollStep(k, "extract", rest, t, "idle")
                   /\ UNCHANGED tasks
              ELSE IF Expired(task)
              THEN /\ tasks' = Cancelled(t)
                   /\ poll' = PollStep(k, "abort", rest, t, "")
              ELSE /\ poll' = PollStep(k, "messages", rest, t, "")
                   /\ UNCHANGED tasks
  /\ UNCHANGED <<harness, aborting, fetched, taskCounter, gate, lpc, cpc, timers, evExt, pollTimer, now,
                 releases, commits, lastSeen, unchanged, tickExpired, env, wait, promised, refused>>

\* pollRunningTasks(): the next task of the snapshot; pollTask(task,
\* statuses) up to its first await.
PollNext(k) ==
  /\ poll[k].pc = "next"
  /\ IF poll[k].run = <<>>
     THEN /\ poll' = PollEnd(k)
          /\ UNCHANGED tasks
     ELSE LET t == Head(poll[k].run)
              rest == Tail(poll[k].run)
              task == tasks[t]
          IN  IF Falsy(task.sessionID) \/ task.status # "running"
              THEN /\ poll' = PollStep(k, "next", rest, 0, "")
                   /\ UNCHANGED tasks
              ELSE IF Expired(task)
              THEN /\ tasks' = Cancelled(t)
                   /\ poll' = PollStep(k, "abort", rest, t, "")
              ELSE IF task.sessionID \in poll[k].idle
              THEN /\ poll' = PollStep(k, "extract", rest, t, "idle")
                   /\ UNCHANGED tasks
              ELSE /\ poll' = PollStep(k, "messages", rest, t, "")
                   /\ UNCHANGED tasks
  /\ UNCHANGED <<harness, aborting, fetched, taskCounter, gate, lpc, cpc, timers, evExt, pollTimer, now,
                 releases, commits, lastSeen, unchanged, tickExpired, env, wait, promised, refused>>

\* pollTask(), timeout branch: cancelTask's session.abort returned;
\* release(), cancelTask returns true.
PollAbortReturn(k) ==
  /\ poll[k].pc = "abort"
  /\ poll' = [poll EXCEPT ![k].pc = "timedout"]
  /\ ReleaseFor(poll[k].cur, lpc)
  /\ UNCHANGED <<harness, aborting, fetched, tasks, taskCounter, cpc, timers, evExt, pollTimer, now,
                 commits, lastSeen, unchanged, tickExpired, env, wait, promised, refused>>

\* pollTask(), timeout branch after `await cancelTask`: the cause.
PollTimedOut(k) ==
  /\ poll[k].pc = "timedout"
  /\ tasks' = [tasks EXCEPT ![poll[k].cur].error = "Task timed out"]
  /\ poll' = PollStep(k, "next", poll[k].run, 0, "")
  /\ UNCHANGED <<harness, aborting, fetched, taskCounter, gate, lpc, cpc, timers, evExt, pollTimer, now,
                 releases, commits, lastSeen, unchanged, tickExpired, env, wait, promised, refused>>

\* Poll path: extractResult returned; tryComplete commits and releases.
PollExtractReturn(k, outcome) ==
  /\ poll[k].pc = "extract"
  /\ tasks' = Resolved(poll[k].cur, outcome)
  /\ commits' = [commits EXCEPT ![poll[k].cur] = @ \cup {"poll"}]
  /\ poll' = PollStep(k, "next", poll[k].run, 0, "")
  /\ ReleaseFor(poll[k].cur, lpc)
  /\ UNCHANGED <<harness, aborting, fetched, taskCounter, cpc, timers, evExt, pollTimer, now, lastSeen, unchanged, tickExpired, env, wait, promised, refused>>

\* The stability bookkeeping that keeps stablePolls when the count changes.
Observed_sticky(task, msgCount) ==
  IF task.lastMsgCount # Undef /\ msgCount = task.lastMsgCount
  THEN [task EXCEPT !.stablePolls = (IF @ = Undef THEN 0 ELSE @) + 1]
  ELSE [task EXCEPT !.lastMsgCount = msgCount,
                    !.stablePolls = IF @ = Undef THEN 0 ELSE @]

\* pollTask(), stability detection: what the message count read does to
\* the task's counters.
Observed(task, msgCount) ==
  IF task.lastMsgCount # Undef /\ msgCount = task.lastMsgCount
  THEN [task EXCEPT !.stablePolls = (IF @ = Undef THEN 0 ELSE @) + 1]
  ELSE [task EXCEPT !.lastMsgCount = msgCount, !.stablePolls = 0]

\* The threshold test with > for >=.
Stable_late(task, msgCount) ==
  /\ task.lastMsgCount # Undef /\ msgCount = task.lastMsgCount
  /\ Observed(task, msgCount).stablePolls > STABLE_POLL_THRESHOLD

Stable(task, msgCount) ==
  /\ task.lastMsgCount # Undef /\ msgCount = task.lastMsgCount
  /\ Observed(task, msgCount).stablePolls >= STABLE_POLL_THRESHOLD

\* pollTask(): session.messages returned msgCount messages (or threw:
\* msgCount = Undef).
PollMessagesReturn(k, msgCount) ==
  /\ poll[k].pc = "messages"
  /\ LET t == poll[k].cur
     IN  IF msgCount = Undef
         THEN /\ poll' = PollStep(k, "next", poll[k].run, 0, "")
              /\ UNCHANGED <<tasks, lastSeen, unchanged>>
         ELSE /\ tasks' = [tasks EXCEPT ![t] = Observed(tasks[t], msgCount)]
              /\ poll' = IF Stable(tasks[t], msgCount) /\ CanResolve(tasks[t])
                         THEN PollStep(k, "extract", poll[k].run, t, "stable")
                         ELSE PollStep(k, "next", poll[k].run, 0, "")
              /\ lastSeen' = [lastSeen EXCEPT ![t] = msgCount]
              /\ unchanged' = [unchanged EXCEPT ![t] =
                                 IF lastSeen[t] = msgCount THEN @ + 1 ELSE 0]
  /\ UNCHANGED <<harness, aborting, fetched, taskCounter, gate, lpc, cpc, timers, evExt, pollTimer, now,
                 releases, commits, tickExpired, env, wait, promised, refused>>

\* Time passes.
Tick ==
  /\ now < env.clock
  /\ now' = now + 1
  /\ UNCHANGED <<harness, aborting, fetched, tasks, taskCounter, gate, lpc, cpc, timers, evExt, poll,
                 pollTimer, releases, commits, lastSeen, unchanged, tickExpired, env, wait, promised, refused>>

\* registerCleanup()'s cleanup, run on beforeExit, SIGINT or SIGTERM: what
\* it writes to the manager and the gate.
CleanupBody ==
  /\ pollTimer' = FALSE
  /\ LET r == clear(gate)
     IN  /\ gate' = r.gate
         /\ lpc' = Woken(lpc, r.rejected, "rejected")
  /\ tasks' = [t \in 1..Len(tasks) |->
                 IF tasks[t].status = "running" /\ ~Falsy(tasks[t].sessionID)
                 THEN [tasks[t] EXCEPT !.status = "cancelled"]
                 ELSE tasks[t]]
  /\ UNCHANGED <<harness, fetched, taskCounter, cpc, timers, evExt, poll, now, releases,
                 commits, lastSeen, unchanged, tickExpired, env, wait, promised, refused>>

\* The running tasks the cleanup's loop finds with this session.
Aborted(sessionID) ==
  {t \in 1..Len(tasks) :
     tasks[t].status = "running" /\ tasks[t].sessionID = sessionID}

\* The cleanup with the session.abort calls it fires and does not await.
Cleanup ==
  /\ CleanupBody
  /\ aborting' = [sessionID \in TaskIds |->
                    aborting[sessionID] + Cardinality(Aborted(sessionID))]

\* One of the cleanup's aborts comes back; .catch(() => {}) drops a failure.
ShutdownAbortReturn(sessionID) ==
  /\ aborting[sessionID] > 0
  /\ aborting' = [aborting EXCEPT ![sessionID] = @ - 1]
  /\ UNCHANGED <<harness, fetched, tasks, taskCounter, gate, lpc, cpc, timers, evExt,
                 poll, pollTimer, now, releases, commits, lastSeen, unchanged,
                 tickExpired, env, wait, promised, refused>>

\* ------------------------------------------------------ launchAndWait
\* launchAndWait(input, timeoutMs) is called with timeoutMs undefined or one
\* of these.
WaitTimeouts == {Undef, 0}

\* The gate's side of the manager, and what one release() on behalf of
\* task t makes of it.
Slots == [gate |-> gate, lpc |-> lpc, releases |-> releases]

Released(s, t) ==
  LET r == release(s.gate)
  IN  [gate     |-> r.gate,
       lpc      |-> Woken(s.lpc, r.resolved, "create"),
       releases |-> Count(s.releases, t)]

WaitAt(pc, deadline) == [pc |-> pc, t |-> wait.t, deadline |-> deadline]

\* What one stretch of launchAndWait() leaves behind.
WaitStep(ts, s, w) ==
  /\ tasks' = ts
  /\ gate' = s.gate
  /\ lpc' = s.lpc
  /\ releases' = s.releases
  /\ wait' = w

TimedOut(ts, t) == [ts EXCEPT ![t].error = "Task timed out"]

\* launchAndWait(): the head of its loop, reached with the registry ts and
\* the gate's side s: leave the loop on a terminal status, cancel past the
\* deadline, sleep otherwise.
LoopHead(ts, s, deadline) ==
  LET t == wait.t
  IN  IF ts[t].status \notin {"running", "pending"}
      THEN WaitStep(ts, s, WaitAt("returned", 0))
      ELSE IF now > deadline
      THEN LET cancelled == [ts EXCEPT ![t].status = "cancelled",
                                       ![t].completedAt = now]
           IN  IF ~Falsy(ts[t].sessionID)
               THEN WaitStep(cancelled, s, WaitAt("abort", deadline))
               ELSE WaitStep(TimedOut(cancelled, t), Released(s, t),
                             WaitAt("returned", 0))
      ELSE WaitStep(ts, s, WaitAt("sleep", deadline))

\* launchAndWait(input, timeoutMs) called by the manager's user: launch().
LaunchAndWait(timeoutMs) ==
  /\ wait.pc = "none"
  /\ LaunchCall
  /\ wait' = [pc |-> "launch", t |-> taskCounter + 1, deadline |-> timeoutMs]

\* launchAndWait(): the sleep is over; pollTask(task) up to its first await.
WaitWake ==
  /\ wait.pc = "sleep"
  /\ LET t == wait.t
         task == tasks[t]
     IN  IF task.status # "running" \/ Falsy(task.sessionID)
         THEN LoopHead(tasks, Slots, wait.deadline)
         ELSE IF Expired(task)
         THEN WaitStep(Cancelled(t), Slots, WaitAt("pollabort", wait.deadline))
         ELSE WaitStep(tasks, Slots, WaitAt("messages", wait.deadline))
  /\ UNCHANGED <<harness, aborting, fetched, taskCounter, cpc, timers, evExt, poll, pollTimer, now,
                 commits, lastSeen, unchanged, tickExpired, env, promised, refused>>

\* pollTask(task), timeout branch: cancelTask's session.abort returned;
\* release(), the cause, back to the loop.
WaitPollAbortReturn ==
  /\ wait.pc = "pollabort"
  /\ LoopHead(TimedOut(tasks, wait.t), Released(Slots, wait.t), wait.deadline)
  /\ UNCHANGED <<harness, aborting, fetched, taskCounter, cpc, timers, evExt, poll, pollTimer, now,
                 commits, lastSeen, unchanged, tickExpired, env, promised, refused>>

\* pollTask(task): session.messages returned msgCount messages (or threw:
\* msgCount = Undef).
WaitMessagesReturn(msgCount) ==
  /\ wait.pc = "messages"
  /\ LET t == wait.t
     IN  IF msgCount = Undef
         THEN /\ LoopHead(tasks, Slots, wait.deadline)
              /\ UNCHANGED <<lastSeen, unchanged>>
         ELSE /\ IF Stable(tasks[t], msgCount) /\ CanResolve(tasks[t])
                 THEN WaitStep([tasks EXCEPT ![t] = Observed(tasks[t], msgCount)],
                               Slots, WaitAt("extract", wait.deadline))
                 ELSE LoopHead([tasks EXCEPT ![t] = Observed(tasks[t], msgCount)],
                               Slots, wait.deadline)
              /\ lastSeen' = [lastSeen EXCEPT ![t] = msgCount]
              /\ unchanged' = [unchanged EXCEPT ![t] =
                                 IF lastSeen[t] = msgCount THEN @ + 1 ELSE 0]
  /\ UNCHANGED <<harness, aborting, fetched, taskCounter, cpc, timers, evExt, poll, pollTimer, now,
                 commits, tickExpired, env, promised, refused>>

\* pollTask(task): extractResult returned; tryComplete commits and
\* releases, back to the loop.
WaitExtractReturn(outcome) ==
  /\ wait.pc = "extract"
  /\ LoopHead(Resolved(wait.t, outcome), Released(Slots, wait.t), wait.deadline)
  /\ commits' = [commits EXCEPT ![wait.t] = @ \cup {"wait"}]
  /\ UNCHANGED <<harness, aborting, fetched, taskCounter, cpc, timers, evExt, poll, pollTimer, now,
                 lastSeen, unchanged, tickExpired, env, promised, refused>>

\* launchAndWait(), past the deadline: cancelTask's session.abort returned;
\* release(), the cause, break.
WaitAbortReturn ==
  /\ wait.pc = "abort"
  /\ WaitStep(TimedOut(tasks, wait.t), Released(Slots, wait.t), WaitAt("returned", 0))
  /\ UNCHANGED <<harness, aborting, fetched, taskCounter, cpc, timers, evExt, poll, pollTimer, now,
                 commits, lastSeen, unchanged, tickExpired, env, promised, refused>>

\* A caller of launch() (twice) and cancelTask() who also cancels tasks
\* that are over and ids that do not exist; sessions idle whenever asked.
NextCancel ==
  \/ Launch
  \/ \E t \in TaskIds : LaunchRejected(t)
  \/ \E t \in TaskIds : \E a \in CreateAnswers(t) : CreateReturn(t, a)
  \/ \E t \in TaskIds, o \in {"ok", "throw"} : PromptReturn(t, o)
  \/ \E t \in TaskIds : CancelTask(t)
  \/ \E t \in TaskIds : CancelRefused(t)
  \/ \E t \in TaskIds : CancelAbortReturn(t)
  \/ Overlap < env.ticks /\ PollTick
  \/ \E k \in TickIds : \E statuses \in StatusAnswers(k) : StatusReturn(k, statuses)
  \/ \E k \in TickIds : PollNext(k)
  \/ \E k \in TickIds, o \in ExtractOutcomes : PollExtractReturn(k, o)
  \/ Cleanup
  \/ \E sessionID \in TaskIds : ShutdownAbortReturn(sessionID)

\* One task resolved on an idle notification, its extraction answered
\* with fetched.
NextExtract ==
  \/ Launch
  \/ \E t \in TaskIds : CreateReturn(t, WithId(t))
  \/ \E t \in TaskIds, o \in {"ok", "throw"} : PromptReturn(t, o)
  \/ \E t \in TaskIds : HandleEvent(t)
  \/ \E t \in TaskIds : TimerFire(t)
  \/ \E t \in TaskIds : EventExtractReturn(t, Extraction(fetched))

\* One launch, a caller who cancels, and a hook that delivers events of
\* every kind.
NextEvents ==
  \/ Launch
  \/ \E t \in TaskIds : \E a \in CreateAnswers(t) : CreateReturn(t, a)
  \/ \E t \in TaskIds, o \in {"ok", "throw"} : PromptReturn(t, o)
  \/ \E t \in TaskIds : CancelTask(t)
  \/ \E t \in TaskIds : CancelAbortReturn(t)
  \/ \E event \in Events : HandleEventCall(event)
  \/ \E t \in TaskIds : TimerFire(t)
  \/ \E t \in TaskIds, o \in ExtractOutcomes : EventExtractReturn(t, o)

\* Launches, the poller and the shutdown cleanup with its aborts.
NextShutdown ==
  \/ Launch
  \/ \E t \in TaskIds : LaunchRejected(t)
  \/ \E t \in TaskIds : \E a \in CreateAnswers(t) : CreateReturn(t, a)
  \/ \E t \in TaskIds, o \in {"ok", "throw"} : PromptReturn(t, o)
  \/ Overlap < env.ticks /\ PollTick
  \/ \E k \in TickIds : \E statuses \in StatusAnswers(k) : StatusReturn(k, statuses)
  \/ \E k \in TickIds : PollNext(k)
  \/ \E k \in TickIds, o \in ExtractOutcomes : PollExtractReturn(k, o)
  \/ Cleanup
  \/ \E sessionID \in TaskIds : ShutdownAbortReturn(sessionID)

\* The message counts session.messages may answer a poll of task t with
\* (Undef: it throws).
MsgAnswers(t) ==
  IF env.restless
  THEN {c \in 0..env.msgs : t # 0 /\ c # tasks[t].lastMsgCount}
  ELSE 0..env.msgs \cup {Undef}

\* Launches contending for the gate, the poller on sessions that are idle
\* whenever asked, and the shutdown cleanup.
NextQueue ==
  \/ Launch
  \/ \E t \in TaskIds : LaunchRejected(t)
  \/ \E t \in TaskIds : \E a \in CreateAnswers(t) : CreateReturn(t, a)
  \/ \E t \in TaskIds, o \in {"ok", "throw"} : PromptReturn(t, o)
  \/ Overlap < env.ticks /\ PollTick
  \/ \E k \in TickIds : \E statuses \in StatusAnswers(k) : StatusReturn(k, statuses)
  \/ \E k \in TickIds : PollNext(k)
  \/ \E k \in TickIds, o \in ExtractOutcomes : PollExtractReturn(k, o)
  \/ Cleanup
  \/ \E sessionID \in TaskIds : ShutdownAbortReturn(sessionID)

\* isSubAgentSession(sessionID)
isSubAgentSession(sessionID) ==
  IF Falsy(sessionID) THEN FALSE ELSE sessionID \in runner.subAgentSessions

\* The runner after explore() call c moved to pc.
ExploreAt(c, pc) == [runner EXCEPT !.calls[c].pc = pc]

\* The finally of explore(): subAgentSessions.delete(sessionID).
Finally(r, c) ==
  [r EXCEPT !.subAgentSessions = @ \ {r.calls[c].sessionID}]

\* explore(prompt, parentSessionID, timeoutMs) is called: session.create.
Explore(c) ==
  /\ runner.calls[c].pc = "none"
  /\ runner' = ExploreAt(c, "create")
  /\ UNCHANGED <<gateVars, mgrVars>>

\* What session.create may answer an explore() call with: a throw, no id
\* key, or an id: one no call has been given, a falsy one, or one an
\* earlier call was given.
ExploreAnswers ==
  {Thrown, NoId}
    \cup {WithId(id) : id \in {runner.created + 1} \cup FalsyIds}
    \cup {WithId(runner.calls[d].sessionID) :
            d \in {e \in ExploreIds : ~Falsy(runner.calls[e].sessionID)}}

\* session.create returned: it threw or answered without an id key
\* (explore() throws), or it answered with an id, which is added to
\* subAgentSessions, whatever it is, before promptAsync is called.
ExploreCreateReturn(c, answer) ==
  /\ runner.calls[c].pc = "create"
  /\ runner' = IF answer.kind = "id"
               THEN [runner EXCEPT !.created = @ + 1,
                                   !.subAgentSessions = @ \cup {answer.id},
                                   !.calls[c].sessionID = answer.id,
                                   !.calls[c].pc = "prompt"]
               ELSE ExploreAt(c, "thrown")
  /\ UNCHANGED <<gateVars, mgrVars>>

\* promptAsync returned: the deadline is set and explore() sleeps, or it
\* threw and explore() throws through its finally.
ExplorePromptReturn(c, outcome) ==
  /\ runner.calls[c].pc = "prompt"
  /\ runner' = IF outcome = "ok"
               THEN [runner EXCEPT !.calls[c].deadline = now + exploreTimeoutMs,
                                   !.calls[c].pc = "sleep"]
               ELSE Finally(ExploreAt(c, "thrown"), c)
  /\ UNCHANGED <<gateVars, mgrVars>>

\* A sleep of explore() is over: the head of its loop asks session.status
\* before the deadline and goes on to extractResult at or past it.
ExploreWake(c) ==
  /\ runner.calls[c].pc = "sleep"
  /\ runner' = IF now < runner.calls[c].deadline
               THEN ExploreAt(c, "status")
               ELSE ExploreAt(c, "extract")
  /\ UNCHANGED <<gateVars, mgrVars>>

\* session.status returned: the session is idle (break, extractResult), or
\* it is not or the call threw (sleep).
ExploreStatusReturn(c, answer) ==
  /\ runner.calls[c].pc = "status"
  /\ runner' = IF answer = "idle"
               THEN ExploreAt(c, "extract")
               ELSE ExploreAt(c, "sleep")
  /\ UNCHANGED <<gateVars, mgrVars>>

\* extractResult returned or threw: explore() returns or throws through
\* its finally.
ExploreExtractReturn(c, outcome) ==
  /\ runner.calls[c].pc = "extract"
  /\ runner' = Finally(ExploreAt(c, IF outcome = "throw" THEN "thrown" ELSE "returned"), c)
  /\ UNCHANGED <<gateVars, mgrVars>>

\* explore() calls, overlapping or not, while time passes.
NextExplore ==
  \/ \E c \in ExploreIds : Explore(c)
  \/ \E c \in ExploreIds, a \in ExploreAnswers : ExploreCreateReturn(c, a)
  \/ \E c \in ExploreIds, o \in {"ok", "throw"} : ExplorePromptReturn(c, o)
  \/ \E c \in ExploreIds : ExploreWake(c)
  \/ \E c \in ExploreIds, a \in {"idle", "busy", "throw"} : ExploreStatusReturn(c, a)
  \/ \E c \in ExploreIds, o \in ExtractOutcomes : ExploreExtractReturn(c, o)
  \/ Tick

\* One launch and the poller: no idle notification, no cancelTask(), no
\* shutdown.
NextLive ==
  \/ Launch
  \/ \E t \in TaskIds : \E a \in CreateAnswers(t) : CreateReturn(t, a)
  \/ \E t \in TaskIds, o \in {"ok", "throw"} : PromptReturn(t, o)
  \/ Overlap < env.ticks /\ PollTick
  \/ \E k \in TickIds : \E statuses \in StatusAnswers(k) : StatusReturn(k, statuses)
  \/ \E k \in TickIds : PollNext(k)
  \/ \E k \in TickIds : PollAbortReturn(k)
  \/ \E k \in TickIds : PollTimedOut(k)
  \/ \E k \in TickIds, o \in ExtractOutcomes : PollExtractReturn(k, o)
  \/ \E k \in TickIds : \E c \in MsgAnswers(poll[k].cur) : PollMessagesReturn(k, c)
  \/ Tick

\* A caller that only calls launchAndWait(), once, and hears of no idle
\* notification.
NextWait ==
  \/ \E d \in WaitTimeouts : LaunchAndWait(d)
  \/ WaitWake
  \/ WaitPollAbortReturn
  \/ \E c \in MsgAnswers(wait.t) : WaitMessagesReturn(c)
  \/ \E o \in ExtractOutcomes : WaitExtractReturn(o)
  \/ WaitAbortReturn
  \/ \E t \in TaskIds : \E a \in CreateAnswers(t) : CreateReturn(t, a)
  \/ \E t \in TaskIds, o \in {"ok", "throw"} : PromptReturn(t, o)
  \/ Overlap < env.ticks /\ PollTick
  \/ \E k \in TickIds : \E statuses \in StatusAnswers(k) : StatusReturn(k, statuses)
  \/ \E k \in TickIds : PollNext(k)
  \/ \E k \in TickIds : PollAbortReturn(k)
  \/ \E k \in TickIds : PollTimedOut(k)
  \/ \E k \in TickIds, o \in ExtractOutcomes : PollExtractReturn(k, o)
  \/ \E k \in TickIds : \E c \in MsgAnswers(poll[k].cur) : PollMessagesReturn(k, c)
  \/ Tick
  \/ Cleanup
  \/ \E sessionID \in TaskIds : ShutdownAbortReturn(sessionID)

Next ==
  \/ Launch
  \/ \E t \in TaskIds : LaunchRejected(t)
  \/ \E t \in TaskIds : \E a \in CreateAnswers(t) : CreateReturn(t, a)
  \/ \E t \in TaskIds, o \in {"ok", "throw"} : PromptReturn(t, o)
  \/ \E t \in TaskIds : CancelTask(t)
  \/ \E t \in TaskIds : CancelAbortReturn(t)
  \/ \E t \in TaskIds : HandleEvent(t)
  \/ \E t \in TaskIds : TimerFire(t)
  \/ \E t \in TaskIds, o \in ExtractOutcomes : EventExtractReturn(t, o)
  \/ Overlap < env.ticks /\ PollTick
  \/ \E k \in TickIds : \E statuses \in StatusAnswers(k) : StatusReturn(k, statuses)
  \/ \E k \in TickIds : PollNext(k)
  \/ \E k \in TickIds : PollAbortReturn(k)
  \/ \E k \in TickIds : PollTimedOut(k)
  \/ \E k \in TickIds, o \in ExtractOutcomes : PollExtractReturn(k, o)
  \/ \E k \in TickIds, c \in 0..env.msgs \cup {Undef} : PollMessagesReturn(k, c)
  \/ Tick
  \/ Cleanup
  \/ \E sessionID \in TaskIds : ShutdownAbortReturn(sessionID)

GateNext == GateAcquire \/ GateRelease \/ GateClear

vars == <<gateVars, mgrVars, runner>>

\* ---------------------------------------------------------------- claims
Registered == 1..Len(tasks)

\* The launches whose acquire() has been granted a slot.
Granted(t) == lpc[t] \in {"create", "prompt", "done"}

\* A tryComplete() of task t, on either path, comes back from extractResult
\* in this step.
ExtractionReturns(t) ==
  \/ evExt'[t] < evExt[t]
  \/ \E k \in TickIds :
       poll[k].pc = "extract" /\ poll[k].cur = t /\ poll'[k].pc # "extract"

\* C1: when the event path and the poll path both try to resolve a task,
\* only one of the two tryComplete() calls writes the terminal status (and
\* releases): never have both paths committed for the same task.
C1_ExactlyOneResolves ==
  \A t \in TaskIds : Cardinality(commits[t]) <= 1

\* C2: once a task's status is completed, error or cancelled it never
\* changes again, whatever step comes next.
C2_TerminalIsFinal ==
  [][\A t \in Registered :
       tasks[t].status \in Terminal => tasks'[t].status = tasks[t].status]_vars

\* C3: while the shutdown cleanup has not run, at most maxConcurrent tasks
\* are running.
C3_RunningWithinLimit ==
  pollTimer =>
    Cardinality({t \in Registered : tasks[t].status = "running"}) <= maxConcurrent

\* C4: release() is called on behalf of a task only if the task had been
\* granted a slot, and at most once.
C4_ReleaseOncePerGrant ==
  [][\A t \in TaskIds :
       releases'[t] # releases[t] => (Granted(t) /\ releases[t] = 0)]_vars

\* C5: when extractResult returns for a task that cancelTask cancelled in
\* the meantime (no shutdown involved), tryComplete commits nothing: the
\* task record is unchanged and release() is not called.
C5_NoCommitAfterCancel ==
  [][\A t \in Registered :
       (pollTimer /\ tasks[t].status = "cancelled" /\ ExtractionReturns(t))
         => (tasks'[t] = tasks[t] /\ releases'[t] = releases[t])]_vars

\* C6: 0 <= count <= maxConcurrent after every sequence of acquire(),
\* release() and clear() calls.
C6_CountInRange == gate.count >= 0 /\ gate.count <= maxConcurrent

\* A release() found no slot held, and later the gate filled up and queued.
C6_Witness == floored /\ gate.count = maxConcurrent /\ gate.queue # <<>>

\* C7: queued waiters are granted in arrival order: the waiters release()
\* resolved were resolved oldest first, and every waiter still queued
\* arrived after every waiter already resolved.
C7_FifoGrants ==
  /\ \A i, j \in 1..Len(grantLog) : i < j => grantLog[i] < grantLog[j]
  /\ \A i \in 1..Len(grantLog), k \in 1..Len(gate.queue) :
       ~gate.queue[k].settled => grantLog[i] < gate.queue[k].id

\* Two queued waiters have been granted while a third still waits.
C7_Witness == Len(grantLog) >= 2 /\ gate.queue # <<>>

\* C8: right after clear() no waiter is pending (each was rejected), the
\* queue is empty and count is 0; of the k acquire() calls that follow it
\* directly, the first maxConcurrent are granted at once and the next queue.
C8_ClearResets ==
  sinceClear >= 0 =>
    /\ gate.count = Min(sinceClear, maxConcurrent)
    /\ Len(gate.queue) = Max(0, sinceClear - maxConcurrent)
    /\ \A w \in 1..calls :
         IF w <= calls - sinceClear
         THEN wstate[w] # "queued"
         ELSE wstate[w] = (IF w - (calls - sinceClear) <= maxConcurrent
                           THEN "granted" ELSE "queued")

\* clear() rejected a waiter; maxConcurrent + 1 acquire() calls followed.
C8_Witness ==
  /\ sinceClear = maxConcurrent + 1
  /\ \E w \in 1..calls : wstate[w] = "rejected"

\* Tick k's pollTask read the message count of running task t in this
\* step: its session.messages call came back and did not throw.
CountRead(k, t) ==
  /\ poll[k].pc = "messages" /\ poll[k].cur = t /\ poll'[k].pc # "messages"
  /\ (lastSeen'[t] # lastSeen[t] \/ unchanged'[t] # unchanged[t])
  /\ tasks[t].status = "running"

\* The tryComplete() that the stability branch started for t returns.
StableExtractReturns(t) ==
  \E k \in TickIds :
    /\ poll[k].pc = "extract" /\ poll[k].via = "stable" /\ poll[k].cur = t
    /\ poll'[k].pc # "extract"

StabilityStartsOnThird(t) ==
  \A k \in TickIds :
    CountRead(k, t) =>
      ((poll'[k].pc = "extract" /\ poll'[k].cur = t /\ poll'[k].via = "stable")
         <=> unchanged'[t] >= 3)

\* C9 as stated: the stability branch resolves a running task on the third
\* poll in a row that reads an unchanged count, on no earlier poll, and the
\* task is then completed.
C9_StabilityCompletesOnThird ==
  [][\A t \in Registered :
       /\ StabilityStartsOnThird(t)
       /\ StableExtractReturns(t) => tasks'[t].status = "completed"]_vars

\* C9 amended: tryComplete() is started on the third poll in a row that reads
\* the count the poll before it read, and on no earlier poll; the task then
\* ends completed with the result when extraction succeeds and error with
\* the failure when it throws.
C9_StabilityResolvesOnThird ==
  [][\A t \in Registered :
       /\ StabilityStartsOnThird(t)
       /\ StableExtractReturns(t) =>
            \/ tasks'[t].status = "completed" /\ tasks'[t].result # undefined
            \/ tasks'[t].status = "error" /\ tasks'[t].error = "extract failed"]_vars

\* Three unchanged polls in a row resolved a task to completed.
C9_Witness ==
  \E t \in Registered :
    unchanged[t] = 3 /\ tasks[t].status = "completed" /\ commits[t] = {"poll"}

\* C10: every poll tick cancels each task that was running and past its
\* timeout when the tick began, also when the tick's session.status fails:
\* once the tick is over none of them is still running.
C10_TimeoutOnEveryTick ==
  (\A k \in TickIds : poll[k].pc = "idle")
    => \A t \in tickExpired : tasks[t].status # "running"

\* C11: when an explicit cancelTask() finds its task running, every slot
\* held by a running task and a launch queued, then by the time it returns
\* (no shutdown in between) the launch that was queued longest has been
\* granted the slot and count is still maxConcurrent; and a granted launch
\* whose session.create succeeds takes its task to running.
C11_CancelHandsOver ==
  [][\A t \in TaskIds :
       /\ (cpc[t] = "abort" /\ cpc'[t] = "none" /\ promised[t] # 0 /\ pollTimer)
            => /\ lpc'[promised[t]] \in {"create", "prompt", "done"}
               /\ gate'.count = maxConcurrent
       /\ (lpc[t] = "create" /\ lpc'[t] = "prompt")
            => tasks'[t].status = "running"]_vars


\* C12: when launchAndWait() returns a task it launched on a restless
\* session (never named idle, another message count at every poll; no
\* shutdown), the task is cancelled, its error is "Task timed out" and
\* release() has been called for it exactly once.
C12_WaitTimesOut ==
  [][(/\ env.restless /\ pollTimer'
      /\ wait.pc # "returned" /\ wait'.pc = "returned"
      /\ tasks'[wait.t].status # "error")
       => /\ tasks'[wait.t].status = "cancelled"
          /\ tasks'[wait.t].error = "Task timed out"
          /\ releases'[wait.t] = 1]_vars


\* C13: once a task's status is completed, error or cancelled, no step
\* writes any field of its record again.
C13_TerminalRecordFrozen ==
  [][\A t \in Registered :
       tasks[t].status \in Terminal => tasks'[t] = tasks[t]]_vars

\* C14: a task has an error only while its status is error.
C14_ErrorOnlyOnError ==
  \A t \in Registered :
    tasks[t].error # undefined => tasks[t].status = "error"

\* C15: a task has a result only while its status is completed.
C15_ResultOnlyOnCompleted ==
  \A t \in Registered :
    tasks[t].result # undefined => tasks[t].status = "completed"

\* C16: a task that has both stamps has completedAt >= startedAt.
C16_CompletedAfterStarted ==
  \A t \in Registered :
    (tasks[t].startedAt # Undef /\ tasks[t].completedAt # Undef)
      => tasks[t].completedAt >= tasks[t].startedAt

\* C17: startedAt and completedAt are each written at most once: a stamp
\* that has been written is not written again at another clock value.
C17_StampedOnce ==
  [][\A t \in Registered :
       /\ tasks[t].startedAt # Undef => tasks'[t].startedAt = tasks[t].startedAt
       /\ tasks[t].completedAt # Undef
            => tasks'[t].completedAt = tasks[t].completedAt]_vars


\* C18: cancelTask() on an id that is unknown or whose task is completed,
\* error or cancelled returns false and changes nothing (registry, gate,
\* no abort awaited, no release()); on a pending or running task it returns
\* true and sets the status to cancelled.
C18_CancelOnlyLive ==
  [][/\ refused' # refused
          => /\ refused' \in Terminal \cup {"unknown"}
             /\ \E t \in TaskIds :
                  refused' = (IF Created(t) THEN tasks[t].status ELSE "unknown")
             /\ tasks' = tasks /\ gate' = gate /\ lpc' = lpc
             /\ cpc' = cpc /\ releases' = releases
     /\ \A t \in TaskIds :
          /\ ~CanCancel(t)
               => /\ ~cancelTask(t).returns /\ cancelTask(t).tasks = tasks
                  /\ ~cancelTask(t).aborts /\ ~cancelTask(t).releases
          /\ CanCancel(t)
               => /\ cancelTask(t).returns
                  /\ cancelTask(t).tasks[t].status = "cancelled"
          /\ (cpc[t] = "none" /\ cpc'[t] = "abort")
               => (tasks[t].status \in {"pending", "running"}
                   /\ tasks'[t].status = "cancelled")]_vars

\* cancelTask() has cancelled a running task, has released its slot to a
\* queued launch and has then been refused on the cancelled task.
C18_Witness ==
  /\ refused = "cancelled"
  /\ \E t, u \in Registered :
       /\ tasks[t].status = "cancelled" /\ ~Falsy(tasks[t].sessionID)
       /\ cpc[t] = "none" /\ releases[t] = 1
       /\ tasks[u].status = "running"

\* C19: a launch whose queued acquire() is rejected by clear() sets its
\* task to error with "Failed to acquire concurrency slot" and calls no
\* release(); the task stays as it is from then on; and a task whose
\* launch was never granted a slot has no session id, no startedAt and is
\* not running.
C19_RejectedLaunchFails ==
  [][\A t \in Registered :
       /\ (lpc[t] = "rejected" /\ lpc'[t] # "rejected")
            => /\ lpc'[t] = "failed"
               /\ tasks'[t].status = "error"
               /\ tasks'[t].error = "Failed to acquire concurrency slot"
               /\ releases' = releases /\ gate' = gate
       /\ lpc[t] = "failed"
            => (lpc'[t] = "failed" /\ tasks'[t] = tasks[t]
                /\ releases'[t] = releases[t])
       /\ lpc[t] \in {"queued", "rejected", "failed"}
            => /\ tasks[t].sessionID = Undef /\ tasks[t].startedAt = Undef
               /\ tasks[t].status # "running"]_vars

\* A queued launch was rejected by the shutdown's clear() and has failed,
\* while the task holding the slot had been running.
C19_Witness ==
  \E t, u \in Registered :
    /\ lpc[t] = "failed" /\ tasks[t].status = "error"
    /\ tasks[t].error = "Failed to acquire concurrency slot"
    /\ ~Falsy(tasks[u].sessionID) /\ tasks[u].status = "cancelled"


\* C20: when session.create or session.promptAsync fails during launch(),
\* the task ends with status error and the failure's message, and the slot
\* launch() acquired for it is released exactly once: by that catch, and by
\* nothing before it.
C20_FailedStartReleasesOnce ==
  [][\A t \in Registered :
       (lpc[t] \in {"create", "prompt"} /\ lpc'[t] = "done"
        /\ tasks'[t].error \in {"Failed to create sub-agent session",
                                "create failed", "prompt failed"})
         => /\ tasks'[t].status = "error"
            /\ releases[t] = 0
            /\ releases'[t] = 1]_vars


\* C21: when a tryComplete() comes back from extractResult it writes what
\* the extraction's outcome prescribes and calls release(); for a failed
\* extraction that is status error with the failure's message and
\* completedAt stamped, never completed.
C21_FailedExtractionIsError ==
  [][\A t \in Registered :
       ExtractionReturns(t)
         => /\ tasks' \in {Resolved(t, o) : o \in ExtractOutcomes}
            /\ (releases'[t] = releases[t] + 1 \/ releases[t] = MaxCount)
            /\ Resolved(t, "throw")[t].status = "error"
            /\ Resolved(t, "throw")[t].error = "extract failed"
            /\ Resolved(t, "throw")[t].completedAt = now
            /\ Resolved(t, "throw")[t].result = tasks[t].result]_vars

\* A running task's extraction failed: error, stamped, released once.
C21_Witness ==
  \E t \in Registered :
    /\ tasks[t].status = "error" /\ tasks[t].error = "extract failed"
    /\ tasks[t].completedAt # Undef /\ tasks[t].result = undefined
    /\ commits[t] # {} /\ releases[t] = 1

\* C23: every task with a terminal status carries its cause: an error or
\* cancelled task has an error string, a completed task has a result.
C23_TerminalHasCause ==
  \A t \in Registered :
    /\ tasks[t].status \in {"error", "cancelled"} => tasks[t].error # undefined
    /\ tasks[t].status = "completed" => tasks[t].result # undefined

\* C26: a running task has a session id and a startedAt; a pending task
\* has neither.
C26_RunningHasSession ==
  \A t \in Registered :
    /\ tasks[t].status = "running"
         => (~Falsy(tasks[t].sessionID) /\ tasks[t].startedAt # Undef)
    /\ tasks[t].status = "pending"
         => (tasks[t].sessionID = Undef /\ tasks[t].startedAt = Undef)

\* C30: of several idle notifications for one running task only one
\* resolves it: once the event path has committed for a task, a later
\* deferred tryComplete() returning from its extraction writes nothing and
\* calls no release().
C30_BurstResolvesOnce ==
  [][\A t \in Registered :
       (evExt'[t] < evExt[t] /\ "event" \in commits[t])
         => (tasks'[t] = tasks[t] /\ releases'[t] = releases[t])]_vars


\* The positions of the gate's queue that hold an unsettled waiter.
Unsettled(g) == {i \in 1..Len(g.queue) : ~g.queue[i].settled}

\* C27: no lost wake-up: while the gate's queue holds an unsettled waiter,
\* count equals maxConcurrent.
C27_NoLostWakeup ==
  Unsettled(gate) # {} => gate.count = maxConcurrent

\* Waiters are still queued after a release() has handed the slot over.
C27_Witness ==
  /\ Len(gate.queue) >= 2 /\ Unsettled(gate) # {}
  /\ grantLog # <<>> /\ ~floored

\* C28: release() on a queue with an unsettled waiter resolves exactly the
\* first of them, drops the entries up to it and leaves count unchanged;
\* release() on an empty queue resolves no one and sets count to
\* max(0, count - 1).
C28_ReleaseHandsOverOrDecrements ==
  LET r == release(gate)
  IN  IF Unsettled(gate) # {}
      THEN LET first == CHOOSE i \in Unsettled(gate) :
                          \A j \in Unsettled(gate) : i <= j
           IN  /\ r.resolved = {gate.queue[first].id}
               /\ r.gate.count = gate.count
               /\ r.gate.queue = SubSeq(gate.queue, first + 1, Len(gate.queue))
      ELSE /\ gate.queue = <<>>
           /\ r.resolved = {}
           /\ r.gate.count = Max(0, gate.count - 1)
           /\ r.gate.queue = <<>>

\* A release() found no slot held, a later one handed the slot to the head
\* of the queue, and waiters are still queued.
C28_Witness ==
  floored /\ Len(grantLog) = 1 /\ Len(gate.queue) >= 2

\* C29: a queued waiter is settled at most once: release() resolves and
\* clear() rejects only waiters that are still queued, release() at most
\* one of them, a settled waiter stays as it was settled, and a waiter
\* becomes rejected only in a clear().
C29_SettledOnce ==
  [][/\ Cardinality(release(gate).resolved) <= 1
     /\ release(gate).resolved \subseteq {w \in 1..calls : wstate[w] = "queued"}
     /\ clear(gate).rejected \subseteq {w \in 1..calls : wstate[w] = "queued"}
     /\ \A w \in 1..calls :
          /\ wstate[w] \in {"resolved", "rejected"} => wstate'[w] = wstate[w]
          /\ wstate[w] = "queued"
               => Cardinality({i \in Unsettled(gate) : gate.queue[i].id = w}) = 1
          /\ (wstate[w] # "rejected" /\ wstate'[w] = "rejected")
               => /\ wstate[w] = "queued"
                  /\ sinceClear' = 0
                  /\ gate' = [count |-> 0, queue |-> <<>>]]_vars

\* One waiter was resolved by a release(), one was rejected by a clear(),
\* and a third is queued.
C29_Witness ==
  \E u, v, w \in 1..calls :
    wstate[u] = "resolved" /\ wstate[v] = "rejected" /\ wstate[w] = "queued"


\* C24: the cleanup body runs once: after it has run (the interval timer is
\* gone) no step rejects a queued launch, cancels a running task without
\* stamping it or issues a further abort.
C24_CleanupRunsOnce ==
  [][~pollTimer
       => /\ \A t \in Registered :
               /\ ~(lpc[t] = "queued" /\ lpc'[t] = "rejected")
               /\ ~(/\ tasks[t].status = "running" /\ tasks'[t].status = "cancelled"
                    /\ tasks'[t].completedAt = Undef)
          /\ \A sessionID \in TaskIds :
               aborting'[sessionID] <= aborting[sessionID]]_vars

\* C25: the step in which the cleanup runs leaves the gate with count 0 and
\* an empty queue, wakes every queued launch with a rejection, leaves no
\* task running and has an abort in flight for every task that was
\* running; a rejected launch ends with status error and stays so; and no
\* poll tick starts once the cleanup has run.
C25_ShutdownStopsAll ==
  [][/\ (pollTimer /\ ~pollTimer')
          => /\ gate' = [count |-> 0, queue |-> <<>>]
             /\ \A t \in Registered :
                  /\ lpc[t] = "queued" => lpc'[t] = "rejected"
                  /\ tasks'[t].status # "running"
                  /\ tasks[t].status = "running"
                       => /\ tasks'[t].status = "cancelled"
                          /\ ~Falsy(tasks[t].sessionID)
                          /\ aborting'[tasks[t].sessionID] > 0
     /\ \A t \in Registered :
          /\ (lpc[t] = "rejected" /\ lpc'[t] # "rejected")
               => (tasks'[t].status = "error" /\ lpc'[t] = "failed")
          /\ lpc[t] = "failed"
               => (tasks'[t] = tasks[t] /\ lpc'[t] = "failed")
     /\ \A k \in TickIds :
          (poll[k].pc = "idle" /\ poll'[k].pc # "idle") => pollTimer]_vars

\* The messages of an answer that are the assistant's, the latest of a set
\* of positions, and whether a message has a text part.
Assistants(ms) == {i \in 1..Len(ms) : ms[i].role = "assistant"}
Latest(S) == CHOOSE i \in S : \A j \in S : j <= i
HasTextPart(m) ==
  /\ m.parts.array
  /\ \E k \in 1..Len(m.parts.items) :
       m.parts.items[k].type = "text" /\ m.parts.items[k].hasText

\* C22: a tryComplete() that comes back from an extraction whose
\* session.messages call did not throw, on an answer that has no message
\* of the assistant or whose latest message of the assistant has no text
\* part, leaves the task completed with the result "(no output)".
C22_NoTextIsNoOutput ==
  [][\A t \in Registered :
       (/\ commits'[t] # commits[t]
        /\ fetched.kind \in {"list", "other"}
        /\ \/ Assistants(fetched.messages) = {}
           \/ ~HasTextPart(fetched.messages[Latest(Assistants(fetched.messages))]))
         => (tasks'[t].status = "completed" /\ tasks'[t].result = "(no output)")]_vars


\* C31: two poll steps on the same running task (of two periodic ticks, or
\* of a tick and of launchAndWait()) never both pass tryComplete()'s
\* running check: no two of them are awaiting extractResult for the task
\* at once, and a tick and launchAndWait() never have both committed for it.
C31_OverlappingPollsResolveOnce ==
  \A t \in Registered :
    /\ \A k \in TickIds :
         (poll[k].pc = "extract" /\ poll[k].cur = t)
           => /\ ~(wait.pc = "extract" /\ wait.t = t)
              /\ \A j \in TickIds \ {k} :
                   ~(poll[j].pc = "extract" /\ poll[j].cur = t)
    /\ ~({"poll", "wait"} \subseteq commits[t])


\* A tick's session.status call failed in this step.
StatusFails == \E k \in TickIds : poll[k].pc = "status" /\ poll'[k].pc = "idle"

\* A tick's session.messages call for the task in hand failed in this step.
CountFails ==
  /\ \E k \in TickIds : poll[k].pc = "messages" /\ poll'[k].pc = "next"
  /\ lastSeen' = lastSeen /\ unchanged' = unchanged

\* C32: a failed session.status or session.messages call of a poll tick
\* changes no task record, calls no release() and leaves the gate and the
\* launches as they were, so a task that was running still is; and every
\* tick that starts takes every running task into its snapshot.
C32_PollFailuresSwallowed ==
  [][/\ (StatusFails \/ CountFails)
          => /\ tasks' = tasks /\ releases' = releases
             /\ gate' = gate /\ lpc' = lpc /\ pollTimer' = pollTimer
     /\ \A k \in TickIds :
          (poll[k].pc = "idle" /\ poll'[k].pc = "status")
            => \A t \in Registered :
                 tasks[t].status = "running"
                   => \E i \in 1..Len(poll'[k].run) : poll'[k].run[i] = t]_vars

\* A tick has ended on a failed session.status: a task that was running
\* and past its timeout when the tick began is still running, unreleased.
C32_Witness ==
  /\ \A k \in TickIds : poll[k].pc = "idle"
  /\ pollTimer
  /\ \E t \in tickExpired : tasks[t].status = "running" /\ releases[t] = 0


\* C33: handleEvent() schedules nothing for an event that is not the idle
\* notification, names no session, names a session of no task or names a
\* task that is not running; for a running task it schedules one deferred
\* callback; and the step in which a callback is scheduled changes no task
\* record, nothing of the gate and no launch, and calls no release().
C33_HandleEventOnlySchedules ==
  [][/\ \A event \in Events :
          LET task == findBySessionID(event.sessionID)
          IN  IF \/ event.type # "session.idle" \/ Falsy(event.sessionID)
                 \/ task = 0 \/ tasks[task].status # "running"
              THEN handleEvent(event) = timers
              ELSE handleEvent(event) = [timers EXCEPT ![task] = @ + 1]
     /\ \A t \in TaskIds :
          timers'[t] > timers[t]
            => /\ Created(t) /\ tasks[t].status = "running"
               /\ timers'[t] = timers[t] + 1
               /\ tasks' = tasks /\ gate' = gate /\ lpc' = lpc /\ cpc' = cpc
               /\ releases' = releases /\ evExt' = evExt
               /\ commits' = commits]_vars

\* A callback is scheduled for a running task that nothing has resolved
\* or released yet.
C33_Witness ==
  \E t \in Registered :
    /\ timers[t] = 1 /\ evExt[t] = 0
    /\ tasks[t].status = "running" /\ commits[t] = {} /\ releases[t] = 0


\* The task's polling bookkeeping.
Counters(task) == <<task.lastMsgCount, task.stablePolls>>

\* C34: a tick's poll step of the task at the head of its snapshot does
\* nothing when the task is not running; cancels it and goes to the abort
\* when it is past its timeout, whatever the session's status; otherwise
\* starts tryComplete() when the session is idle and fetches the message
\* count when it is not.  The timeout branch ends the step with the cause
\* and fetches nothing; the idle branch ends it with the resolution and
\* leaves the counters as they were.
C34_PollChecksInOrder ==
  [][\A k \in TickIds :
       /\ (poll[k].pc = "next" /\ poll[k].run # <<>> /\ poll'[k] # poll[k])
            => LET t == Head(poll[k].run)
                   rest == Tail(poll[k].run)
               IN  IF tasks[t].status # "running" \/ Falsy(tasks[t].sessionID)
                   THEN /\ tasks' = tasks
                        /\ poll'[k] = PollAt("next", rest, 0, "", poll[k].idle)
                   ELSE IF Expired(tasks[t])
                   THEN /\ tasks'[t].status = "cancelled"
                        /\ poll'[k].pc = "abort" /\ poll'[k].cur = t
                   ELSE /\ tasks' = tasks /\ poll'[k].cur = t
                        /\ IF tasks[t].sessionID \in poll[k].idle
                           THEN poll'[k].pc = "extract" /\ poll'[k].via = "idle"
                           ELSE poll'[k].pc = "messages"
       /\ poll[k].pc = "abort" => poll'[k].pc \in {"abort", "timedout"}
       /\ (poll[k].pc = "timedout" /\ poll'[k].pc # "timedout")
            => /\ poll'[k] = PollAt("next", poll[k].run, 0, "", poll[k].idle)
               /\ tasks'[poll[k].cur].error = "Task timed out"
               /\ Counters(tasks'[poll[k].cur]) = Counters(tasks[poll[k].cur])
       /\ (poll[k].pc = "extract" /\ poll[k].via = "idle" /\ poll'[k].pc # "extract")
            => /\ poll'[k] = PollAt("next", poll[k].run, 0, "", poll[k].idle)
               /\ tasks'[poll[k].cur].status \in {"completed", "error"}
               /\ Counters(tasks'[poll[k].cur]) = Counters(tasks[poll[k].cur])
               /\ lastSeen' = lastSeen]_vars

\* A tick is in the timeout branch for a task whose session it would
\* otherwise have polled for the count once more.
C34_Witness ==
  \E k \in TickIds :
    /\ poll[k].pc = "abort" /\ tasks[poll[k].cur].status = "cancelled"
    /\ tasks[poll[k].cur].lastMsgCount # Undef /\ commits[poll[k].cur] = {}


\* A pollTask() of task t, the tick's or launchAndWait()'s, comes back
\* from session.messages in this step.
MessagesReturn(t) ==
  \/ \E k \in TickIds :
       poll[k].pc = "messages" /\ poll[k].cur = t /\ poll'[k] # poll[k]
  \/ wait.pc = "messages" /\ wait.t = t /\ wait' # wait

\* ... and the call did not throw: the count it read is lastSeen'[t].
CountReturned(t) ==
  /\ MessagesReturn(t)
  /\ (lastSeen'[t] # lastSeen[t] \/ unchanged'[t] # unchanged[t])

\* C35: a poll that reads another count than the task's lastMsgCount
\* stores the count, sets stablePolls to 0 and starts no tryComplete(); a
\* poll that reads the same count adds exactly 1 to stablePolls; and no
\* step but a poll's return from session.messages writes the two fields.
C35_StabilityCounters ==
  [][\A t \in Registered :
       /\ CountReturned(t)
            => IF tasks[t].lastMsgCount # Undef /\ lastSeen'[t] = tasks[t].lastMsgCount
               THEN /\ tasks'[t].lastMsgCount = tasks[t].lastMsgCount
                    /\ tasks[t].stablePolls # Undef
                    /\ tasks'[t].stablePolls = tasks[t].stablePolls + 1
               ELSE /\ tasks'[t].lastMsgCount = lastSeen'[t]
                    /\ tasks'[t].stablePolls = 0
                    /\ \A k \in TickIds :
                         poll'[k].pc = "extract" => poll[k].pc = "extract"
                    /\ wait'.pc = "extract" => wait.pc = "extract"
                    /\ commits' = commits
       /\ Counters(tasks'[t]) # Counters(tasks[t]) => CountReturned(t)]_vars

\* A running task's counter stands at 2 after two polls that read the
\* count again, and the count was another one before.
C35_Witness ==
  \E t \in Registered :
    /\ tasks[t].status = "running" /\ tasks[t].stablePolls = 2
    /\ tasks[t].lastMsgCount = MaxMsgCount /\ unchanged[t] = 2


\* What the poller's surroundings guarantee: the interval timer keeps
\* firing, time passes, every external call comes back, and session.status
\* succeeds again and again.
LiveFairness ==
  /\ WF_vars(Overlap < env.ticks /\ PollTick)
  /\ WF_vars(Tick)
  /\ \A k \in TickIds :
       /\ SF_vars(\E statuses \in StatusAnswers(k) :
                    statuses.ok /\ StatusReturn(k, statuses))
       /\ WF_vars(PollNext(k))
       /\ WF_vars(PollAbortReturn(k))
       /\ WF_vars(PollTimedOut(k))
       /\ WF_vars(\E o \in ExtractOutcomes : PollExtractReturn(k, o))
       /\ WF_vars(\E c \in MsgAnswers(poll[k].cur) : PollMessagesReturn(k, c))
  /\ WF_vars(\E t \in TaskIds : \E a \in CreateAnswers(t) : CreateReturn(t, a))
  /\ WF_vars(\E t \in TaskIds, o \in {"ok", "throw"} : PromptReturn(t, o))

\* C36: with no idle notification delivered, every task that is running,
\* early enough for the clock of the run to pass its timeout, reaches a
\* terminal status.
C36_RunningTerminates ==
  \A t \in TaskIds :
    (/\ Created(t) /\ tasks[t].status = "running"
     /\ tasks[t].startedAt + taskTimeoutMs < env.clock)
      ~> (Created(t) /\ tasks[t].status \in Terminal)

\* What the surroundings of a queued launch guarantee: every external call
\* comes back, a rejected acquire() is seen by its launch(), the interval
\* timer keeps firing and session.status succeeds again and again.
QueueFairness ==
  /\ WF_vars(\E t \in TaskIds : LaunchRejected(t))
  /\ WF_vars(\E t \in TaskIds : \E a \in CreateAnswers(t) : CreateReturn(t, a))
  /\ WF_vars(\E t \in TaskIds, o \in {"ok", "throw"} : PromptReturn(t, o))
  /\ WF_vars(Overlap < env.ticks /\ PollTick)
  /\ \A k \in TickIds :
       /\ SF_vars(\E statuses \in StatusAnswers(k) :
                    statuses.ok /\ StatusReturn(k, statuses))
       /\ WF_vars(PollNext(k))
       /\ WF_vars(\E o \in ExtractOutcomes : PollExtractReturn(k, o))

\* C37: a launch that is queued in acquire() before any shutdown leaves
\* the queue and its task becomes running or error; and every release()
\* made while a launch is queued wakes the launch queued longest.
C37_QueuedLaunchProceeds ==
  /\ \A t \in TaskIds :
       (pollTimer /\ lpc[t] = "queued")
         ~> /\ Created(t) /\ lpc[t] # "queued"
            /\ tasks[t].status \in {"running", "error"}
  /\ [][\A t \in Registered :
          (releases'[t] # releases[t] /\ gate.queue # <<>>)
            => /\ lpc'[Head(gate.queue).id] = "create"
               /\ gate'.queue = Tail(gate.queue)]_vars

\* A launch that had to queue has got its slot from the release() of the
\* task before it and is running.
C37_Witness ==
  \E t, u \in Registered :
    /\ t < u /\ releases[t] = 1 /\ tasks[t].status \in Terminal
    /\ tasks[u].status = "running" /\ releases[u] = 0
    /\ gate = [count |-> maxConcurrent, queue |-> <<>>]


\* launchAndWait() has returned a task whose status is terminal.
ReturnedTerminal ==
  wait.pc = "returned" => tasks[wait.t].status \in Terminal

\* C38: launchAndWait() returns a task whose status is completed, error or
\* cancelled, and the status of the returned task does not change after
\* the return.
C38_WaitReturnsFinal ==
  [][/\ ReturnedTerminal
     /\ wait.pc = "returned"
          => tasks'[wait.t].status = tasks[wait.t].status]_vars


\* C39: the registry only grows and its keys are unique: a step adds at
\* most one record, under the next id of the counter, which no record has
\* yet; no step removes a record or changes a record's id; and getTask(id)
\* finds, for every id handed out, the one record registered under it.
C39_RegistryGrowsOnly ==
  [][/\ Len(tasks') \in {Len(tasks), Len(tasks) + 1}
     /\ \A t \in 1..Len(tasks) : tasks'[t].id = tasks[t].id
     /\ Len(tasks') = Len(tasks) + 1
          => /\ taskCounter' = taskCounter + 1
             /\ tasks'[Len(tasks')].id = taskCounter'
             /\ getTask(taskCounter') = {}
             /\ tasks'[Len(tasks')].status = "pending"
     /\ \A id \in 1..taskCounter : getTask(id) = {id}
     /\ \A id \in TaskIds \ (1..taskCounter) : getTask(id) = {}]_vars

\* Two launches have registered two tasks, both of which are over.
C39_Witness ==
  /\ Len(tasks) = 2 /\ taskCounter = 2
  /\ \A t \in 1..2 : tasks[t].status \in Terminal /\ getTask(t) = {t}


\* explore() call c has created its session and has not returned or
\* thrown yet.
Exploring(c) == runner.calls[c].pc \in {"prompt", "sleep", "status", "extract"}

\* C40: isSubAgentSession(id) is true exactly for the ids of the sessions
\* created by explore() calls that are still in progress; once every call
\* made has returned or thrown, subAgentSessions is empty.
C40_SubAgentWhileExploring ==
  /\ \A id \in ExploreIds \cup FalsyIds :
       isSubAgentSession(id)
         <=> \E c \in ExploreIds : Exploring(c) /\ runner.calls[c].sessionID = id
  /\ (\A c \in ExploreIds : runner.calls[c].pc \in {"none", "returned", "thrown"})
       => runner.subAgentSessions = {}

Init == GateInit /\ MgrInit

\* The gate alone, driven by arbitrary acquire(), release() and clear() calls.
SpecGate == Init /\ [][GateNext]_vars

\* The manager and its gate.
Spec == Init /\ [][Next]_vars

InitCancel == GateInit /\ MgrInitIn({Pair})

\* The manager under a caller who cancels whatever id it likes.
SpecCancel == InitCancel /\ [][NextCancel]_vars

InitShutdown == GateInit /\ MgrInitIn({Duo})
SpecShutdown == InitShutdown /\ [][NextShutdown]_vars

InitExtract == GateInit /\ MgrInitWith({Once}, Responses)
SpecExtract == InitExtract /\ [][NextExtract]_vars

InitEvents == GateInit /\ MgrInitIn({Solo, Twin})
SpecEvents == InitEvents /\ [][NextEvents]_vars

InitLive == GateInit /\ MgrInitIn({Wait, Restless})
SpecLive == InitLive /\ [][NextLive]_vars /\ LiveFairness

InitQueue == GateInit /\ MgrInitIn({Settling})
SpecQueue == InitQueue /\ [][NextQueue]_vars /\ QueueFairness

InitExplore == GateInit /\ MgrInitIn({Wait})
SpecExplore == InitExplore /\ [][NextExplore]_vars

InitWait == GateInit /\ MgrInitIn({Wait, Restless})

\* The manager under a caller of launchAndWait().
SpecWait == InitWait /\ [][NextWait]_vars

====
